---- MODULE Spec2Model ----
(***************************************************************************)
(* Model of src/main.py: the /consulta endpoint of the PJe TJMG scraper.   *)
(*                                                                         *)
(* Specifications of this module:                                         *)
(*   SpecNorm - the request validation of consulta (lines 397-408) applied *)
(*              to one raw (doc, tipo) pair drawn from a bounded family;   *)
(*   Spec     - NumReq concurrent /consulta requests running on the asyncio*)
(*              event loop: validation, cache check, asyncio.wait_for with *)
(*              the 180 s deadline, the SEMA slot, the stages of scrape_pje*)
(*              and the cache write;                                       *)
(*   FairSpec - Spec with weak fairness on every request's own steps.      *)
(*                                                                         *)
(* The asyncio and Playwright behaviour the program relies on:             *)
(*   - wait_for cancels the task at its deadline, waits for the task to    *)
(*     end, and raises TimeoutError only if the task ended cancelled; a    *)
(*     task that caught the CancelledError and returned hands its result   *)
(*     to the caller;                                                      *)
(*   - CancelledError is a BaseException: a bare `except:` catches it,     *)
(*     `except Exception` does not;                                        *)
(*   - leaving `async with async_playwright()` stops the driver, which     *)
(*     takes down any browser still open; browser.close() completes.       *)
(*                                                                         *)
(* Strings are modelled as tuples of one-character strings.                *)
(***************************************************************************)
EXTENDS Integers, Sequences, FiniteSets, TLC

\* ------------------------------------------------------------------ bounds
NumReq == 2
MaxTicks == 5
MaxDigits == 15
MaxTxt == 4

\* ------------------------------------------------------- program constants
CACHE_TTL == 300
DEADLINE == 180
MAX_CASES == 25

\* ------------------------------------------------------------------ strings
Digits == {"0", "1", "2", "3", "4", "5", "6", "7", "8", "9"}

IsDigit(c) == c \in Digits

IsSpace(c) == c \in {" ", "\t", "\n"}

\* mutant: the document is passed on as typed
sanitize_doc_Unstripped(doc) == doc

\* re.sub(r"\D+", "", doc or ""): keep the digit characters, in order
sanitize_doc(doc) == SelectSeq(doc, IsDigit)

\* str.upper() on the letters that occur in the inputs
Upper(c) ==
  CASE c = "c" -> "C"
    [] c = "p" -> "P"
    [] c = "f" -> "F"
    [] c = "n" -> "N"
    [] c = "j" -> "J"
    [] c = "r" -> "R"
    [] c = "g" -> "G"
    [] c = "x" -> "X"
    [] OTHER -> c

UpperStr(s) == [i \in 1..Len(s) |-> Upper(s[i])]

RECURSIVE LStrip(_)
LStrip(s) == IF s # <<>> /\ IsSpace(Head(s)) THEN LStrip(Tail(s)) ELSE s

RECURSIVE RStrip(_)
RStrip(s) ==
  IF s # <<>> /\ IsSpace(s[Len(s)]) THEN RStrip(SubSeq(s, 1, Len(s) - 1)) ELSE s

\* str.strip()
Strip(s) == RStrip(LStrip(s))

CPF == <<"C", "P", "F">>
CNPJ == <<"C", "N", "P", "J">>

\* (tipo or "").strip().upper()
DocTypeOf(tipo) == UpperStr(Strip(tipo))

\* mutant: a blank tipo is filled in from the digit count
ValidateRequest_Inferring(doc, tipo) ==
  LET doc_digits == sanitize_doc(doc)
      declared == DocTypeOf(tipo)
      doc_type == IF declared # <<>> THEN declared
                  ELSE IF Len(doc_digits) = 11 THEN CPF
                  ELSE IF Len(doc_digits) = 14 THEN CNPJ
                  ELSE declared
  IN  IF doc_type \notin {CPF, CNPJ}
        THEN [status |-> 400, detail |-> "tipo_invalido", digits |-> doc_digits, type |-> doc_type]
      ELSE IF doc_type = CPF /\ Len(doc_digits) # 11
        THEN [status |-> 400, detail |-> "cpf_invalido", digits |-> doc_digits, type |-> doc_type]
      ELSE IF doc_type = CNPJ /\ Len(doc_digits) # 14
        THEN [status |-> 400, detail |-> "cnpj_invalido", digits |-> doc_digits, type |-> doc_type]
      ELSE [status |-> 0, detail |-> "ok", digits |-> doc_digits, type |-> doc_type]

\* mutant: the digit counts are not checked
ValidateRequest_NoLengthCheck(doc, tipo) ==
  LET doc_digits == sanitize_doc(doc)
      doc_type == DocTypeOf(tipo)
  IN  IF doc_type \notin {CPF, CNPJ}
        THEN [status |-> 400, detail |-> "tipo_invalido", digits |-> doc_digits, type |-> doc_type]
      ELSE [status |-> 0, detail |-> "ok", digits |-> doc_digits, type |-> doc_type]

\* consulta, lines 397-408: status 400 (HTTPException) or 0 (validation passed)
ValidateRequest(doc, tipo) ==
  LET doc_digits == sanitize_doc(doc)
      doc_type == DocTypeOf(tipo)
  IN  IF doc_type \notin {CPF, CNPJ}
        THEN [status |-> 400, detail |-> "tipo_invalido", digits |-> doc_digits, type |-> doc_type]
      ELSE IF doc_type = CPF /\ Len(doc_digits) # 11
        THEN [status |-> 400, detail |-> "cpf_invalido", digits |-> doc_digits, type |-> doc_type]
      ELSE IF doc_type = CNPJ /\ Len(doc_digits) # 14
        THEN [status |-> 400, detail |-> "cnpj_invalido", digits |-> doc_digits, type |-> doc_type]
      ELSE [status |-> 0, detail |-> "ok", digits |-> doc_digits, type |-> doc_type]

\* ------------------------------------------------- bounded family of inputs
DigitChar(i) ==
  CASE i = 0 -> "0" [] i = 1 -> "1" [] i = 2 -> "2" [] i = 3 -> "3" [] i = 4 -> "4"
    [] i = 5 -> "5" [] i = 6 -> "6" [] i = 7 -> "7" [] i = 8 -> "8" [] OTHER -> "9"

\* the n digits of a generated document, without punctuation
PlainDigits(n) == [i \in 1..n |-> DigitChar((7 * i) % 10)]

\* the same n digits with the separator sep written before the first digit
\* and after every k-th digit (sep = "" writes none)
RECURSIVE Punctuate(_, _, _, _)
Punctuate(n, sep, k, i) ==
  IF i > n THEN <<>>
  ELSE <<PlainDigits(n)[i]>>
         \o (IF sep # "" /\ i % k = 0 THEN <<sep>> ELSE <<>>)
         \o Punctuate(n, sep, k, i + 1)

RawDoc(n, sep, k) == (IF sep # "" THEN <<sep>> ELSE <<>>) \o Punctuate(n, sep, k, 1)

Separators == {"", ".", "-", "/", " ", "a"}

\* raw tipo texts, each labelled with the kind it declares
RawTipos ==
  { [text |-> <<"c", "p", "f">>, declares |-> "CPF"],
    [text |-> <<"C", "P", "F">>, declares |-> "CPF"],
    [text |-> <<" ", "C", "p", "f", " ">>, declares |-> "CPF"],
    [text |-> <<"c", "n", "p", "j">>, declares |-> "CNPJ"],
    [text |-> <<"C", "n", "P", "j", "\n">>, declares |-> "CNPJ"],
    [text |-> <<>>, declares |-> "undeclared"],
    [text |-> <<" ", " ">>, declares |-> "undeclared"],
    [text |-> <<"r", "g">>, declares |-> "other"],
    [text |-> <<"c", "p", "f", "x">>, declares |-> "other"],
    [text |-> <<"c", " ", "p", "f">>, declares |-> "other"] }

NormInputs ==
  { [n |-> n, sep |-> sep, k |-> k, doc |-> RawDoc(n, sep, k), tipo |-> t] :
      n \in 0..MaxDigits, sep \in Separators, k \in {1, 3}, t \in RawTipos }

NoResult == [status |-> -1, detail |-> "pending", digits |-> <<>>, type |-> <<>>]


\* ------------------------------------------------------------------- time
RECURSIVE GCD(_, _)
GCD(a, b) == IF b = 0 THEN a ELSE GCD(b, a % b)

\* the clock advances on the coarsest grid that holds both time constants
TickLen == GCD(CACHE_TTL, DEADLINE)

MaxTime == MaxTicks * TickLen

\* --------------------------------------------------------------- requests
Req == 1..NumReq

\* the raw (doc, tipo) pairs the concurrent requests are issued with
ReqInputs ==
  { [doc |-> RawDoc(11, ".", 3), tipo |-> <<" ", "c", "p", "f">>],
    [doc |-> RawDoc(14, "", 1), tipo |-> <<"C", "N", "P", "J">>],
    [doc |-> RawDoc(10, "-", 3), tipo |-> <<"c", "p", "f">>] }

NoKey == <<>>

\* cache_key = f"{doc_digits}_{doc_type}"
CacheKey(doc_digits, doc_type) == <<doc_digits, doc_type>>

NoData ==
  [documento |-> <<>>, tipo |-> <<>>, processos |-> "none",
   aviso_site |-> FALSE, erro_interno |-> "none"]

\* scrape_pje, lines 265-270: the result as first built. Its "timestamp" text
\* is written once and read by nothing in the program; it is left out.
\* processos is "none" (empty list), "partial" or "all" (one record per case
\* number found); aviso_site and erro_interno are absent keys when FALSE / "none".
NewResult(doc_digits, doc_type) ==
  [documento |-> doc_digits, tipo |-> doc_type, processos |-> "none",
   aviso_site |-> FALSE, erro_interno |-> "none"]

VARIABLES
  clock,     \* time.time(), in seconds
  cache,     \* _cache: cache_key -> [ts, data]
  sema,      \* SEMA._value
  pc,        \* where each request's handler / lookup task is suspended
  key,       \* cache_key of the request (NoKey before validation passes)
  now,       \* the handler's local `now` (line 411)
  timer,     \* the wait_for timeout: "off", "armed", "fired"
  browser,   \* the browser of the request's session: "none", "open", "closed"
  closes,    \* how many times the request's browser was torn down
  acquires,  \* how many times the request took the slot
  releases,  \* how many times the request gave the slot back
  out,       \* how the _run() task ends: "none", "result", "exception", "cancelled"
  data,      \* the result dict scrape_pje is building / has returned
  resp,      \* the HTTP response: [status, body]
  ninput,    \* SpecNorm: the raw input under validation
  nresult,   \* SpecNorm: what ValidateRequest answered
  stxt,      \* SpecCases: CNJ_RE.findall(txt), the matches in the results text
  scnjs,     \* SpecCases: cnjs (line 343)
  sidx,      \* SpecCases: position of the loop of line 352 in cnjs[:25]
  sres,      \* SpecCases: result: [processos, aviso_site, erro_interno]
  spc        \* SpecCases: "off", "read", "loop", "returned"

vars == <<clock, cache, sema, pc, key, now, timer, browser, closes, acquires,
          releases, out, data, resp, ninput, nresult, stxt, scnjs, sidx, sres, spc>>

normVars == <<ninput, nresult>>

casesVars == <<stxt, scnjs, sidx, sres, spc>>

sysVars == <<clock, cache, sema, pc, key, now, timer, browser, closes, acquires,
             releases, out, data, resp>>

NoResp == [status |-> 0, body |-> NoData]

\* stages of the lookup task in which it holds the slot
SessionPcs == {"launch", "context", "page", "input", "submit", "results", "cases",
               "closing", "pwexit"}

\* stages inside the try block of scrape_pje (lines 284-378)
TryPcs == {"page", "input", "submit", "results", "cases"}

\* stages at which asyncio.wait_for has not returned to the handler yet
PendingPcs == SessionPcs \cup {"wait"}

InitSys ==
  /\ clock = 0
  /\ cache = [k \in {} |-> 0]
  /\ sema = 1
  /\ pc = [r \in Req |-> "idle"]
  /\ key = [r \in Req |-> NoKey]
  /\ now = [r \in Req |-> 0]
  /\ timer = [r \in Req |-> "off"]
  /\ browser = [r \in Req |-> "none"]
  /\ closes = [r \in Req |-> 0]
  /\ acquires = [r \in Req |-> 0]
  /\ releases = [r \in Req |-> 0]
  /\ out = [r \in Req |-> "none"]
  /\ data = [r \in Req |-> NoData]
  /\ resp = [r \in Req |-> NoResp]

\* scrape_pje, lines 265-270, the part of the result the case loop writes
NoCasesResult == [processos |-> <<>>, aviso_site |-> FALSE, erro_interno |-> "none"]

NormIdle ==
  /\ ninput = [n |-> 0, sep |-> "", k |-> 1, doc |-> <<>>,
               tipo |-> [text |-> <<>>, declares |-> "undeclared"]]
  /\ nresult = NoResult

CasesIdle ==
  /\ stxt = <<>>
  /\ scnjs = <<>>
  /\ sidx = 0
  /\ sres = NoCasesResult
  /\ spc = "off"

Init ==
  /\ InitSys
  /\ NormIdle
  /\ CasesIdle

\* ------------------------------------------------------------------ cache
\* mutant: an entry aged exactly CACHE_TTL still counts as fresh
IsFresh_Inclusive(now_, ts) == (now_ - ts) <= CACHE_TTL

\* line 415: (now - item["ts"]) < CACHE_TTL
IsFresh(now_, ts) == (now_ - ts) < CACHE_TTL

\* lines 413-416: the entry consulta answers with, if any
CacheHit(c, k, now_) == k \in DOMAIN c /\ IsFresh(now_, c[k].ts)

\* mutant: the hit answers with the stored item, timestamp included
HitResponse_WholeItem(c, k) == [status |-> 200, body |-> c[k]]

\* lines 414-416: item = _cache.get(cache_key); return item["data"]
HitResponse(c, k) == [status |-> 200, body |-> c[k].data]

\* mutant: the write also drops the entries that have gone stale
CachePut_Evicting(c, k, now_, d) ==
  [x \in {y \in DOMAIN c : IsFresh(now_, c[y].ts)} \cup {k} |->
     IF x = k THEN [ts |-> now_, data |-> d] ELSE c[x]]

\* line 424: _cache[cache_key] = {"ts": now, "data": data}
CachePut(c, k, now_, d) ==
  [x \in DOMAIN c \cup {k} |-> IF x = k THEN [ts |-> now_, data |-> d] ELSE c[x]]

\* ------------------------------------------------------------------- slot
\* mutant: the slot is taken without looking at its value
CanAcquire_Unguarded(v) == TRUE

\* Semaphore.acquire, reached from `async with SEMA` (line 420)
CanAcquire(v) == v > 0

\* mutant: a manual release that a cancellation skips
SemaAfterExit_SkippedOnCancel(v, outcome) == IF outcome = "cancelled" THEN v ELSE v + 1

\* mutant: a manual release that an exception skips
SemaAfterExit_SkippedOnRaise(v, outcome) == IF outcome = "exception" THEN v ELSE v + 1

\* `async with SEMA` exit (line 420): release on every way out of the block
SemaAfterExit(v, outcome) == v + 1


\* ------------------------------------------------------------- the handler
\* consulta, lines 423-430: the status the handler answers with once wait_for
\* has returned the task's result or raised
HandlerStatus(outcome) ==
  CASE outcome = "result" -> 200
    [] outcome = "cancelled" -> 504
    [] OTHER -> 500

\* consulta, lines 397-423, run without suspension: validation, cache check,
\* and on a miss the start of asyncio.wait_for(_run(), timeout=180).
\* Requests are numbered in the order they arrive.
Arrive(r) ==
  /\ pc[r] = "idle"
  /\ \A q \in Req : q < r => pc[q] # "idle"
  /\ \E in \in ReqInputs :
       LET v == ValidateRequest(in.doc, in.tipo)
           k == CacheKey(v.digits, v.type)
       IN  IF v.status = 400
             THEN /\ pc' = [pc EXCEPT ![r] = "done"]
                  /\ resp' = [resp EXCEPT ![r] = [status |-> 400, body |-> NoData]]
                  /\ UNCHANGED <<key, now, timer>>
           ELSE IF CacheHit(cache, k, clock)
             THEN /\ pc' = [pc EXCEPT ![r] = "done"]
                  /\ key' = [key EXCEPT ![r] = k]
                  /\ now' = [now EXCEPT ![r] = clock]
                  /\ resp' = [resp EXCEPT ![r] = HitResponse(cache, k)]
                  /\ UNCHANGED timer
           ELSE /\ pc' = [pc EXCEPT ![r] = "wait"]
                /\ key' = [key EXCEPT ![r] = k]
                /\ now' = [now EXCEPT ![r] = clock]
                /\ timer' = [timer EXCEPT ![r] = "armed"]
                /\ UNCHANGED resp
  /\ UNCHANGED <<clock, cache, sema, browser, closes, acquires, releases, out, data>>
  /\ UNCHANGED <<normVars, casesVars>>

\* _run, lines 420-421, and scrape_pje, lines 265-273: take the slot, build the
\* result, start Playwright and ask for the browser
Acquire(r) ==
  /\ pc[r] = "wait"
  /\ CanAcquire(sema)
  /\ sema' = sema - 1
  /\ acquires' = [acquires EXCEPT ![r] = @ + 1]
  /\ data' = [data EXCEPT ![r] = NewResult(key[r][1], key[r][2])]
  /\ pc' = [pc EXCEPT ![r] = "launch"]
  /\ UNCHANGED <<clock, cache, key, now, timer, browser, closes, releases, out, resp>>
  /\ UNCHANGED <<normVars, casesVars>>

\* scrape_pje, lines 272-276: the browser starts, or starting it raises
\* (outside the try block: the exception leaves scrape_pje)
Launch(r) ==
  /\ pc[r] = "launch"
  /\ \/ /\ browser' = [browser EXCEPT ![r] = "open"]
        /\ pc' = [pc EXCEPT ![r] = "context"]
        /\ UNCHANGED out
     \/ /\ out' = [out EXCEPT ![r] = "exception"]
        /\ pc' = [pc EXCEPT ![r] = "pwexit"]
        /\ UNCHANGED browser
  /\ UNCHANGED <<clock, cache, sema, key, now, timer, closes, acquires, releases, data, resp>>
  /\ UNCHANGED <<normVars, casesVars>>

\* scrape_pje, lines 278-282: new_context, still outside the try block
NewContext(r) ==
  /\ pc[r] = "context"
  /\ \/ /\ pc' = [pc EXCEPT ![r] = "page"]
        /\ UNCHANGED out
     \/ /\ out' = [out EXCEPT ![r] = "exception"]
        /\ pc' = [pc EXCEPT ![r] = "pwexit"]
  /\ UNCHANGED <<clock, cache, sema, key, now, timer, browser, closes, acquires, releases,
                 data, resp>>
  /\ UNCHANGED <<normVars, casesVars>>

\* scrape_pje, lines 376-378: `except Exception` stores the message in the
\* result and returns it; the finally block comes next
CatchInto(r, why) ==
  /\ data' = [data EXCEPT ![r].erro_interno = why]
  /\ out' = [out EXCEPT ![r] = "result"]
  /\ pc' = [pc EXCEPT ![r] = "closing"]

\* a return statement inside the try block (lines 340, 349, 374)
ReturnResult(r, d) ==
  /\ data' = [data EXCEPT ![r] = d]
  /\ out' = [out EXCEPT ![r] = "result"]
  /\ pc' = [pc EXCEPT ![r] = "closing"]

\* scrape_pje, lines 285-287: new_page, goto, first wait
OpenPage(r) ==
  /\ pc[r] = "page"
  /\ \/ /\ pc' = [pc EXCEPT ![r] = "input"]
        /\ UNCHANGED <<out, data>>
     \/ CatchInto(r, "other")
  /\ UNCHANGED <<clock, cache, sema, key, now, timer, browser, closes, acquires, releases, resp>>
  /\ UNCHANGED <<normVars, casesVars>>

\* scrape_pje, lines 289-301: locate the CPF/CNPJ input, force the radio,
\* locate the input again; a missing input raises
FindInput(r) ==
  /\ pc[r] = "input"
  /\ \/ /\ pc' = [pc EXCEPT ![r] = "submit"]
        /\ UNCHANGED <<out, data>>
     \/ CatchInto(r, "input_nao_encontrado")
  /\ UNCHANGED <<clock, cache, sema, key, now, timer, browser, closes, acquires, releases, resp>>
  /\ UNCHANGED <<normVars, casesVars>>

\* scrape_pje, lines 303-323: type the masked document and submit the form
Submit(r) ==
  /\ pc[r] = "submit"
  /\ \/ /\ pc' = [pc EXCEPT ![r] = "results"]
        /\ UNCHANGED <<out, data>>
     \/ CatchInto(r, "submit_falhou")
  /\ UNCHANGED <<clock, cache, sema, key, now, timer, browser, closes, acquires, releases, resp>>
  /\ UNCHANGED <<normVars, casesVars>>

\* scrape_pje, lines 325-349: wait for the results, pick the frame, read the
\* case numbers; with none, return the result with or without aviso_site
Results(r) ==
  /\ pc[r] = "results"
  /\ \/ /\ pc' = [pc EXCEPT ![r] = "cases"]
        /\ UNCHANGED <<out, data>>
     \/ \E msg \in BOOLEAN : ReturnResult(r, [data[r] EXCEPT !.aviso_site = msg])
     \/ CatchInto(r, "other")
  /\ UNCHANGED <<clock, cache, sema, key, now, timer, browser, closes, acquires, releases, resp>>
  /\ UNCHANGED <<normVars, casesVars>>

\* scrape_pje, lines 351-374: the loop over the case numbers
Cases(r) ==
  /\ pc[r] = "cases"
  /\ \/ ReturnResult(r, [data[r] EXCEPT !.processos = "all"])
     \/ /\ data' = [data EXCEPT ![r].processos = "partial", ![r].erro_interno = "other"]
        /\ out' = [out EXCEPT ![r] = "result"]
        /\ pc' = [pc EXCEPT ![r] = "closing"]
  /\ UNCHANGED <<clock, cache, sema, key, now, timer, browser, closes, acquires, releases, resp>>
  /\ UNCHANGED <<normVars, casesVars>>

\* scrape_pje, lines 380-381: finally: await browser.close(), which keeps the
\* result or exception that was on the way out
Close(r) ==
  /\ pc[r] = "closing"
  /\ browser' = [browser EXCEPT ![r] = "closed"]
  /\ closes' = [closes EXCEPT ![r] = @ + 1]
  /\ pc' = [pc EXCEPT ![r] = "pwexit"]
  /\ UNCHANGED <<clock, cache, sema, key, now, timer, acquires, releases, out, data, resp>>
  /\ UNCHANGED <<normVars, casesVars>>

\* mutant: the driver is left running, a browser still open stays open
LeaveSession_NoTeardown(r, outcome) ==
  /\ UNCHANGED <<browser, closes>>
  /\ sema' = SemaAfterExit(sema, outcome)
  /\ releases' = [releases EXCEPT ![r] = @ + 1]
  /\ out' = [out EXCEPT ![r] = outcome]
  /\ pc' = [pc EXCEPT ![r] = "fin"]

\* the effect of leaving `async with async_playwright()` and `async with SEMA`
\* (lines 272 and 420): the driver stops, which tears down a browser that is
\* still open, then the slot is released and the task is done
LeaveSession(r, outcome) ==
  /\ browser' = [browser EXCEPT ![r] = IF @ = "open" THEN "closed" ELSE @]
  /\ closes' = [closes EXCEPT ![r] = IF browser[r] = "open" THEN @ + 1 ELSE @]
  /\ sema' = SemaAfterExit(sema, outcome)
  /\ releases' = [releases EXCEPT ![r] = @ + 1]
  /\ out' = [out EXCEPT ![r] = outcome]
  /\ pc' = [pc EXCEPT ![r] = "fin"]

PwExit(r) ==
  /\ pc[r] = "pwexit"
  /\ LeaveSession(r, out[r])
  /\ UNCHANGED <<clock, cache, key, now, timer, acquires, data, resp>>
  /\ UNCHANGED <<normVars, casesVars>>

\* consulta, lines 423-430: wait_for hands the task's result or exception to
\* the handler; a result is cached under the handler's `now` and returned
Finish(r) ==
  /\ pc[r] = "fin"
  /\ IF out[r] = "result"
       THEN /\ cache' = CachePut(cache, key[r], now[r], data[r])
            /\ resp' = [resp EXCEPT ![r] = [status |-> HandlerStatus(out[r]), body |-> data[r]]]
       ELSE /\ resp' = [resp EXCEPT ![r] = [status |-> HandlerStatus(out[r]), body |-> NoData]]
            /\ UNCHANGED cache
  /\ timer' = [timer EXCEPT ![r] = IF @ = "armed" THEN "off" ELSE @]
  /\ pc' = [pc EXCEPT ![r] = "done"]
  /\ UNCHANGED <<clock, sema, key, now, browser, closes, acquires, releases, out, data>>
  /\ UNCHANGED <<normVars, casesVars>>

\* ------------------------------------------------------------ the deadline
\* asyncio.wait_for(..., timeout=180), line 423: the timeout is due
\* mutant: the deadline runs only while the lookup holds the slot
TimerDue_RunOnly(r) ==
  /\ timer[r] = "armed"
  /\ pc[r] \in SessionPcs
  /\ clock - now[r] >= DEADLINE

\* line 423: wait_for(_run(), timeout=180) wraps the wait for SEMA and the lookup
TimerDue(r) ==
  /\ timer[r] = "armed"
  /\ pc[r] \in PendingPcs
  /\ clock - now[r] >= DEADLINE

\* stages with an await inside a bare `except:` (lines 62-69, 89-99, 111-119,
\* 130-137, 154-161, 166-169, 203-209, 215-221, 245-256, 326-330): a
\* CancelledError delivered there is caught and the lookup goes on
SwallowPcs == {"input", "results", "cases"}

\* wait_for cancels the task: CancelledError is raised at the await the task
\* is suspended on. `except Exception` (line 376) does not catch it.
Timeout(r) ==
  /\ TimerDue(r)
  /\ timer' = [timer EXCEPT ![r] = "fired"]
  /\ \/ /\ pc[r] = "wait"
        /\ pc' = [pc EXCEPT ![r] = "fin"]
        /\ out' = [out EXCEPT ![r] = "cancelled"]
        /\ UNCHANGED <<sema, browser, closes, releases>>
     \/ /\ pc[r] \in SwallowPcs
        /\ UNCHANGED <<pc, out, sema, browser, closes, releases>>
     \/ /\ pc[r] \in TryPcs
        /\ pc' = [pc EXCEPT ![r] = "closing"]
        /\ out' = [out EXCEPT ![r] = "cancelled"]
        /\ UNCHANGED <<sema, browser, closes, releases>>
     \/ /\ pc[r] \in {"launch", "context"}
        /\ pc' = [pc EXCEPT ![r] = "pwexit"]
        /\ out' = [out EXCEPT ![r] = "cancelled"]
        /\ UNCHANGED <<sema, browser, closes, releases>>
     \/ /\ pc[r] = "closing"
        /\ browser' = [browser EXCEPT ![r] = "closed"]
        /\ closes' = [closes EXCEPT ![r] = @ + 1]
        /\ pc' = [pc EXCEPT ![r] = "pwexit"]
        /\ out' = [out EXCEPT ![r] = "cancelled"]
        /\ UNCHANGED <<sema, releases>>
     \/ /\ pc[r] = "pwexit"
        /\ LeaveSession(r, "cancelled")
  /\ UNCHANGED <<clock, cache, key, now, acquires, data, resp>>
  /\ UNCHANGED <<normVars, casesVars>>

\* time passes; a due timeout is handled before the clock moves on.
\* Time is counted from the arrival of the first request. Steps that wait for
\* nothing outside the event loop take no time: the handler resumes as soon
\* as its task has ended (lines 423-424 have no await in between), and
\* SEMA.acquire() returns at once while the slot is free.
Tick ==
  /\ clock < MaxTime
  /\ \E r \in Req : pc[r] # "idle"
  /\ \A r \in Req : ~TimerDue(r)
  /\ \A r \in Req : pc[r] # "fin"
  /\ \A r \in Req : pc[r] = "wait" => ~CanAcquire(sema)
  /\ clock' = clock + TickLen
  /\ UNCHANGED <<cache, sema, pc, key, now, timer, browser, closes, acquires, releases,
                 out, data, resp>>
  /\ UNCHANGED <<normVars, casesVars>>

Step(r) ==
  \/ Acquire(r)
  \/ Launch(r)
  \/ NewContext(r)
  \/ OpenPage(r)
  \/ FindInput(r)
  \/ Submit(r)
  \/ Results(r)
  \/ Cases(r)
  \/ Close(r)
  \/ PwExit(r)
  \/ Finish(r)

Next ==
  \/ Tick
  \/ \E r \in Req : Arrive(r)
  \/ \E r \in Req : Step(r)
  \/ \E r \in Req : Timeout(r)

Spec == Init /\ [][Next]_vars

\* The service some time after start-up: an earlier request for WarmKey, which
\* arrived at time 0 on the fresh service, has run its lookup and been
\* answered, so its result is in the cache and the slot is free again.
WarmDoc == ValidateRequest(RawDoc(11, ".", 3), <<"c", "p", "f">>)

WarmKey == CacheKey(WarmDoc.digits, WarmDoc.type)

WarmData == [NewResult(WarmDoc.digits, WarmDoc.type) EXCEPT !.processos = "all"]

InitWarm ==
  /\ clock = 0
  /\ cache = CachePut([k \in {} |-> 0], WarmKey, 0, WarmData)
  /\ sema = 1
  /\ pc = [r \in Req |-> "idle"]
  /\ key = [r \in Req |-> NoKey]
  /\ now = [r \in Req |-> 0]
  /\ timer = [r \in Req |-> "off"]
  /\ browser = [r \in Req |-> "none"]
  /\ closes = [r \in Req |-> 0]
  /\ acquires = [r \in Req |-> 0]
  /\ releases = [r \in Req |-> 0]
  /\ out = [r \in Req |-> "none"]
  /\ data = [r \in Req |-> NoData]
  /\ resp = [r \in Req |-> NoResp]
  /\ NormIdle
  /\ CasesIdle

SpecWarm == InitWarm /\ [][Next]_vars

\* every Playwright call and every resumption of a task or handler ends
\* (each call has a timeout of its own), so each started request keeps moving
FairSpec == Spec /\ \A r \in Req : WF_vars(Step(r))

\* -------------------------------------------------- the validation, alone
InitNorm ==
  /\ InitSys
  /\ CasesIdle
  /\ ninput \in NormInputs
  /\ nresult = NoResult

Normalize ==
  /\ nresult = NoResult
  /\ nresult' = ValidateRequest(ninput.doc, ninput.tipo.text)
  /\ UNCHANGED ninput
  /\ UNCHANGED <<sysVars, casesVars>>

NextNorm == Normalize

SpecNorm == InitNorm /\ [][NextNorm]_vars

\* --------------------------------- the case loop of scrape_pje, in detail
\* case numbers that the results text may show
CaseNumbers ==
  {"0000001-11.2020.8.13.0001", "0000002-22.2021.8.13.0002", "0000003-33.2022.8.13.0003"}

RECURSIVE SeqsUpTo(_, _)
SeqsUpTo(S, n) ==
  IF n = 0 THEN {<<>>}
  ELSE LET shorter == SeqsUpTo(S, n - 1)
       IN  shorter \cup {Append(s, x) : s \in {t \in shorter : Len(t) = n - 1}, x \in S}

\* the match lists the results text may give, repeats included
TxtInputs == SeqsUpTo(CaseNumbers, MaxTxt)

\* mutant: the matches are used as found
unique_preserve_order_Raw(values) == values

\* unique_preserve_order, lines 142-149
RECURSIVE UniqueFrom(_, _, _)
UniqueFrom(values, seen, acc) ==
  IF values = <<>> THEN acc
  ELSE IF Head(values) \in seen THEN UniqueFrom(Tail(values), seen, acc)
  ELSE UniqueFrom(Tail(values), seen \cup {Head(values)}, Append(acc, Head(values)))

unique_preserve_order(values) == UniqueFrom(values, {}, <<>>)

\* cnjs[:25], line 352
LoopCases(cnjs) == SubSeq(cnjs, 1, IF Len(cnjs) < MAX_CASES THEN Len(cnjs) ELSE MAX_CASES)

InitCases ==
  /\ InitSys
  /\ NormIdle
  /\ stxt \in TxtInputs
  /\ scnjs = <<>>
  /\ sidx = 0
  /\ sres = NoCasesResult
  /\ spc = "read"

\* scrape_pje, lines 342-349: read the text, deduplicate the matches; with
\* none, return the result with aviso_site when the page shows a message;
\* an exception here goes to `except Exception` (lines 376-378)
ReadResults ==
  /\ spc = "read"
  /\ \/ /\ unique_preserve_order(stxt) # <<>>
        /\ scnjs' = unique_preserve_order(stxt)
        /\ sidx' = 1
        /\ spc' = "loop"
        /\ UNCHANGED sres
     \/ /\ unique_preserve_order(stxt) = <<>>
        /\ \E msg \in BOOLEAN : sres' = [sres EXCEPT !.aviso_site = msg]
        /\ spc' = "returned"
        /\ UNCHANGED <<scnjs, sidx>>
     \/ /\ sres' = [sres EXCEPT !.erro_interno = "other"]
        /\ spc' = "returned"
        /\ UNCHANGED <<scnjs, sidx>>
  /\ UNCHANGED stxt
  /\ UNCHANGED <<sysVars, normVars>>

\* one record of result["processos"]; erro and meta are absent keys when "none"
CaseRecord(cnj, erro, meta) == [numero |-> cnj, erro |-> erro, meta |-> meta]

\* scrape_pje, lines 352-372: one turn of the loop for cnjs[sidx]
CaseTurn ==
  /\ spc = "loop"
  /\ sidx <= Len(LoopCases(scnjs))
  /\ LET cnj == LoopCases(scnjs)[sidx]
     IN  \/ \* find_clickable_for_cnj returned None (lines 353-356)
            /\ sres' = [sres EXCEPT !.processos =
                          Append(@, CaseRecord(cnj, "clickable_nao_encontrado", "none"))]
            /\ sidx' = sidx + 1
            /\ UNCHANGED spc
         \/ \* open_process_popup returned None (lines 358-361)
            /\ sres' = [sres EXCEPT !.processos =
                          Append(@, CaseRecord(cnj, "popup_bloqueado_ou_mesma_aba", "none"))]
            /\ sidx' = sidx + 1
            /\ UNCHANGED spc
         \/ \* the popup was read and closed (lines 363-372); extract_metadata
            \* answers {} when reading the page body throws (lines 166-169)
            /\ \E meta \in {"read", "empty"} :
                 sres' = [sres EXCEPT !.processos = Append(@, CaseRecord(cnj, "none", meta))]
            /\ sidx' = sidx + 1
            /\ UNCHANGED spc
         \/ \* extract_movements: rows.count() throws (line 212, outside its
            \* try blocks); caught at line 376, nothing appended for this case
            /\ sres' = [sres EXCEPT !.erro_interno = "detalhe_movimentacoes"]
            /\ spc' = "returned"
            /\ UNCHANGED sidx
         \/ \* popup.close() throws (line 372), after the append of line 366
            /\ \E meta \in {"read", "empty"} :
                 sres' = [sres EXCEPT !.processos = Append(@, CaseRecord(cnj, "none", meta)),
                                      !.erro_interno = "detalhe_fechar"]
            /\ spc' = "returned"
            /\ UNCHANGED sidx
  /\ UNCHANGED <<stxt, scnjs>>
  /\ UNCHANGED <<sysVars, normVars>>

\* scrape_pje, line 374: the loop is over
ReturnCases ==
  /\ spc = "loop"
  /\ sidx > Len(LoopCases(scnjs))
  /\ spc' = "returned"
  /\ UNCHANGED <<stxt, scnjs, sidx, sres>>
  /\ UNCHANGED <<sysVars, normVars>>

NextCases ==
  \/ ReadResults
  \/ CaseTurn
  \/ ReturnCases

SpecCases == InitCases /\ [][NextCases]_vars


\* ================================================================ claims

\* C1: at any instant at most one request is inside a scrape_pje browser
\* session (from taking the slot to leaving it), whatever the other requests
\* are doing.
C1_OneSessionAtATime == Cardinality({r \in Req : pc[r] \in SessionPcs}) <= 1

\* C1 witness: one request has its browser open while another request is
\* being timed out.
C1_Witness ==
  \E r, q \in Req :
    /\ r # q
    /\ pc[r] \in SessionPcs /\ browser[r] = "open"
    /\ pc[q] = "fin" /\ out[q] = "cancelled"

\* C2: a request tears its browser down at most once and releases the slot
\* at most once; once its lookup task has ended, a slot it took has been
\* released exactly once and a browser it launched has been closed exactly
\* once; the semaphore never exceeds 1 and is 1 when nobody is in a session.
C2_ReleasedExactlyOnce ==
  /\ sema \in 0..1
  /\ sema = (IF \E r \in Req : pc[r] \in SessionPcs THEN 0 ELSE 1)
  /\ \A r \in Req :
       /\ closes[r] <= 1
       /\ releases[r] <= acquires[r]
       /\ acquires[r] <= 1
       /\ (browser[r] = "none") => (closes[r] = 0)
       /\ (pc[r] \in {"fin", "done"}) =>
            /\ releases[r] = acquires[r]
            /\ (browser[r] # "none") => (browser[r] = "closed" /\ closes[r] = 1)

\* C2 witness: a request whose session was cancelled by the deadline has been
\* answered, with its browser closed once and the slot released once.
C2_Witness ==
  \E r \in Req :
    /\ pc[r] = "done" /\ resp[r].status = 504
    /\ browser[r] = "closed" /\ closes[r] = 1
    /\ acquires[r] = 1 /\ releases[r] = 1
    /\ sema = 1

\* C3: under fair scheduling every request that has arrived is eventually
\* answered.
C3_AllAnswered == \A r \in Req : (pc[r] # "idle") ~> (pc[r] = "done")

\* C3 witness: a request that held the slot ended with 504, and a request
\* for another key that arrived after that deadline took the slot and got 200.
C3_Witness ==
  \E r, q \in Req :
    /\ pc[r] = "done" /\ resp[r].status = 504 /\ acquires[r] = 1
    /\ pc[q] = "done" /\ resp[q].status = 200 /\ acquires[q] = 1
    /\ key[q] # key[r]
    /\ now[q] >= now[r] + DEADLINE

\* C4: a request never starts a browser session when, at the moment it takes
\* the slot, the cache holds a fresh entry for its key.
C4_RecheckAfterAcquire ==
  [][\A r \in Req :
       (pc[r] = "wait" /\ pc'[r] = "launch") => ~CacheHit(cache, key[r], clock)]_vars

\* C5: a lookup that ended in a whole-session failure (erro_interno set, or
\* an exception out of the session) leaves the cache as it was.
C5_FailuresNotCached ==
  [][\A r \in Req :
       (pc[r] = "fin" /\ pc'[r] = "done"
          /\ (out[r] = "exception" \/ data[r].erro_interno # "none"))
       => cache' = cache]_vars

\* C6: a request whose session could not find the CPF/CNPJ input or could not
\* submit the form is answered with HTTP 500.
C6_FieldFailureIs500 ==
  \A r \in Req :
    (pc[r] = "done" /\ data[r].erro_interno \in {"input_nao_encontrado", "submit_falhou"})
      => resp[r].status = 500

\* C7: a request whose deadline expired before its lookup returned is
\* answered with HTTP 504 and writes no cache entry.
C7_DeadlineIs504 ==
  [][\A r \in Req :
       (timer[r] = "fired" /\ pc[r] = "fin" /\ pc'[r] = "done")
       => (resp'[r].status = 504 /\ cache' = cache)]_vars

\* C8: a request that passes validation is answered from the cache, with the
\* entry's payload, exactly when an entry for its key exists whose age at the
\* request's arrival is below 300 s; otherwise it goes on as a cache miss.
C8_ServedIffFresh ==
  [][\A r \in Req :
       (pc[r] = "idle" /\ pc'[r] # "idle" /\ resp'[r].status # 400) =>
         IF key'[r] \in DOMAIN cache /\ clock - cache[key'[r]].ts < 300
           THEN /\ pc'[r] = "done"
                /\ resp'[r] = [status |-> 200, body |-> cache[key'[r]].data]
           ELSE /\ pc'[r] = "wait"
                /\ resp'[r] = NoResp]_vars

\* C8 witness: a request found an entry for its key aged 300 s or more and is
\* waiting for the slot.
C8_Witness ==
  \E r \in Req :
    /\ pc[r] = "wait"
    /\ key[r] \in DOMAIN cache
    /\ now[r] - cache[key[r]].ts >= 300

\* C9: a doc with n digits and any punctuation is accepted, with exactly its
\* digits, iff tipo declares CPF and n = 11 or declares CNPJ and n = 14; every
\* other (doc, tipo) is rejected with 400.
C9_NormalizerContract ==
  (nresult # NoResult) =>
    IF ninput.tipo.declares = "CPF" /\ ninput.n = 11
      THEN nresult.status = 0 /\ nresult.digits = PlainDigits(11) /\ nresult.type = CPF
    ELSE IF ninput.tipo.declares = "CNPJ" /\ ninput.n = 14
      THEN nresult.status = 0 /\ nresult.digits = PlainDigits(14) /\ nresult.type = CNPJ
    ELSE nresult.status = 400

\* C9 witness: a punctuated 14-digit doc was accepted as CNPJ.
C9_Witness ==
  /\ nresult.status = 0
  /\ ninput.sep # "" /\ ninput.n = 14
  /\ ninput.tipo.declares = "CNPJ"

\* C10 (as claimed): with the kind undeclared, 11 digits are accepted as CPF,
\* 14 digits as CNPJ, and any other count is rejected.
C10_KindInferred ==
  (nresult # NoResult /\ ninput.tipo.declares = "undeclared") =>
    IF ninput.n = 11 THEN nresult.status = 0 /\ nresult.type = CPF
    ELSE IF ninput.n = 14 THEN nresult.status = 0 /\ nresult.type = CNPJ
    ELSE nresult.status = 400

\* C10 (amended): with the kind undeclared (tipo empty or blank) the request
\* is rejected with 400 "tipo invalido" whatever the digit count.
C10_UndeclaredRejected ==
  (nresult # NoResult /\ ninput.tipo.declares = "undeclared") =>
    (nresult.status = 400 /\ nresult.detail = "tipo_invalido")

\* C10 witness: an 11-digit doc with a blank tipo was rejected.
C10_Witness ==
  /\ nresult.status = 400
  /\ ninput.tipo.declares = "undeclared" /\ ninput.n = 11

\* C11: a lookup whose session found no case number is answered with HTTP 200
\* and a result with an empty processos list and an aviso_site that is set.
C11_NoCasesHasWarning ==
  [][\A r \in Req :
       (pc[r] = "fin" /\ pc'[r] = "done" /\ out[r] = "result"
          /\ data[r].erro_interno = "none" /\ data[r].processos = "none")
       => /\ resp'[r].status = 200
          /\ resp'[r].body.processos = "none"
          /\ resp'[r].body.aviso_site = TRUE]_vars

\* C12: in the result of scrape_pje, at every point and on every way out, no
\* two entries of processos have the same numero, every numero occurs in the
\* results text, and the entries are in the order in which their numbers
\* first occur in the text.
C12_UniqueInFirstOccurrenceOrder ==
  LET p == sres.processos
      First(x) == CHOOSE i \in 1..Len(stxt) : stxt[i] = x /\ \A j \in 1..(i - 1) : stxt[j] # x
  IN  /\ \A i \in 1..Len(p) : \E j \in 1..Len(stxt) : stxt[j] = p[i].numero
      /\ \A i, j \in 1..Len(p) :
           (i < j) => (p[i].numero # p[j].numero /\ First(p[i].numero) < First(p[j].numero))

\* C12 witness: the text repeats a number, and the loop was cut short by an
\* exception after two records were written.
C12_Witness ==
  /\ spc = "returned"
  /\ sres.erro_interno # "none"
  /\ Len(sres.processos) = 2
  /\ \E i, j \in 1..Len(stxt) : i < j /\ stxt[i] = stxt[j]
  /\ Len(scnjs) = 3

\* C13: a failure inside one case's detail view never ends the lookup with
\* erro_interno, and a lookup that found case numbers returns one record for
\* each of them.
C13_DetailFailureStaysLocal ==
  (spc = "returned") =>
    /\ sres.erro_interno \notin {"detalhe_movimentacoes", "detalhe_fechar"}
    /\ (scnjs # <<>>) => (Len(sres.processos) = Len(LoopCases(scnjs)))

\* C14: a request's browser is no longer open once the request has released
\* the slot, and once the request has its response (200, 500 or 504) its
\* lookup task is over, the slot it took is released and its browser, if it
\* launched one, is closed.
C14_CloseThenReleaseThenRespond ==
  \A r \in Req :
    /\ (releases[r] > 0) => (browser[r] # "open")
    /\ (resp[r].status \in {200, 500, 504}) =>
         /\ pc[r] = "done"
         /\ releases[r] = acquires[r]
         /\ browser[r] # "open"

\* C14 witness: a lookup cancelled by the deadline has ended with its browser
\* closed and the slot released, and its request is not answered yet.
C14_Witness ==
  \E r \in Req :
    /\ pc[r] = "fin" /\ out[r] = "cancelled" /\ timer[r] = "fired"
    /\ browser[r] = "closed" /\ releases[r] = 1
    /\ resp[r] = NoResp

\* C15: in every step the cache keeps all the keys it had, and an entry
\* appears or changes only in the step in which a lookup that returned a
\* result completes for a request with that very key; every other entry,
\* stale or not, is left as it was.
C15_KeysOnlyGrow ==
  [][ /\ DOMAIN cache \subseteq DOMAIN cache'
      /\ \A k \in DOMAIN cache' :
           (k \notin DOMAIN cache \/ cache'[k] # cache[k]) =>
             \E r \in Req :
               /\ pc[r] = "fin" /\ pc'[r] = "done"
               /\ out[r] = "result" /\ key[r] = k
    ]_vars

\* C15 witness: the entry of one key has gone stale and is still in the
\* cache after a request for another key ran its own lookup and stored it.
C15_Witness ==
  \E r \in Req : \E k \in DOMAIN cache :
    /\ key[r] # k /\ key[r] \in DOMAIN cache
    /\ pc[r] = "done" /\ resp[r].status = 200 /\ acquires[r] = 1
    /\ ~IsFresh(now[r], cache[k].ts)

\* C16: a request that arrives to a fresh entry for its key is answered in
\* its arrival step with 200 and the payload stored under that key, and that
\* step leaves the cache, the slot and its counters, the browsers and the
\* deadline timers exactly as they were.
C16_FreshHitBypassesSlot ==
  [][ \A r \in Req :
        (pc[r] = "idle" /\ pc'[r] = "done" /\ resp'[r].status = 200) =>
          /\ CacheHit(cache, key'[r], clock)
          /\ resp'[r].body = cache[key'[r]].data
          /\ cache' = cache /\ sema' = sema
          /\ acquires' = acquires /\ releases' = releases
          /\ browser' = browser /\ timer' = timer
    ]_vars

\* C16 witness: a request has been answered from the cache without ever
\* taking the slot, while the request that arrived before it holds the slot
\* with its lookup under way.
C16_Witness ==
  \E r, q \in Req :
    /\ q < r
    /\ pc[r] = "done" /\ key[r] \in DOMAIN cache
    /\ resp[r] = HitResponse(cache, key[r])
    /\ acquires[r] = 0 /\ timer[r] = "off"
    /\ pc[q] \in SessionPcs /\ acquires[q] = 1 /\ releases[q] = 0
    /\ sema = 0

\* C17: the deadline of a request is running while it waits for the slot and
\* no pending request is ever more than 180 s past its arrival with its
\* deadline still to fire; when the deadline fires on a waiting request, the
\* request ends its task as cancelled in that step, which leaves the slot,
\* the cache, every browser and every other request untouched; and a request
\* ended this way is answered 504 having launched no browser and neither
\* taken nor released the slot.
C17_QueuedDeadline ==
  /\ [](\A r \in Req :
          /\ pc[r] = "wait" => timer[r] = "armed"
          /\ (pc[r] \in PendingPcs /\ timer[r] = "armed") => clock - now[r] <= DEADLINE
          /\ (pc[r] = "done" /\ timer[r] = "fired" /\ acquires[r] = 0) =>
               /\ resp[r].status = 504
               /\ browser[r] = "none" /\ closes[r] = 0 /\ releases[r] = 0)
  /\ [][ \A r \in Req :
           (pc[r] = "wait" /\ timer'[r] = "fired") =>
             /\ clock - now[r] >= DEADLINE
             /\ pc'[r] = "fin" /\ out'[r] = "cancelled"
             /\ sema' = sema /\ cache' = cache
             /\ browser' = browser /\ closes' = closes
             /\ acquires' = acquires /\ releases' = releases
             /\ \A q \in Req \ {r} :
                  pc'[q] = pc[q] /\ out'[q] = out[q] /\ timer'[q] = timer[q]
       ]_vars

\* C17 witness: a request that never got the slot has been answered 504 at
\* its deadline while the request holding the slot is still in its session
\* with its browser open.
C17_Witness ==
  \E r, q \in Req :
    /\ pc[r] = "done" /\ resp[r].status = 504
    /\ timer[r] = "fired" /\ acquires[r] = 0 /\ browser[r] = "none"
    /\ pc[q] \in SessionPcs /\ browser[q] = "open"
    /\ acquires[q] = 1 /\ releases[q] = 0 /\ sema = 0

\* C18: whenever a lookup's result is stored, the entry's timestamp is the
\* arrival time of the request that stored it, the entry is fresh at that
\* moment, and its age at that moment is at most 180 s.
C18_FreshAtWrite ==
  [][ \A r \in Req :
        (pc[r] = "fin" /\ pc'[r] = "done" /\ out[r] = "result") =>
          /\ key[r] \in DOMAIN cache'
          /\ cache'[key[r]].ts = now[r]
          /\ IsFresh(clock, cache'[key[r]].ts)
          /\ clock - cache'[key[r]].ts <= DEADLINE
    ]_vars

\* C19: the step that answers a request with 400 changes nothing but that
\* request's own position and response: the cache, the slot and its
\* counters, the browsers, the timers and the recorded keys stay as they
\* were. A request answered 400 has no key, no timer, no acquisition and no
\* browser, and whatever did reach the cache or the slot carries a key that
\* passes validation (CPF with 11 digits or CNPJ with 14).
C19_RejectedTouchesNothing ==
  /\ [](\A r \in Req :
          /\ resp[r].status = 400 =>
               /\ pc[r] = "done" /\ key[r] = NoKey /\ timer[r] = "off"
               /\ acquires[r] = 0 /\ releases[r] = 0
               /\ browser[r] = "none" /\ out[r] = "none"
          /\ key[r] # NoKey =>
               \/ key[r][2] = CPF /\ Len(key[r][1]) = 11
               \/ key[r][2] = CNPJ /\ Len(key[r][1]) = 14)
  /\ [](\A k \in DOMAIN cache :
          \/ k[2] = CPF /\ Len(k[1]) = 11
          \/ k[2] = CNPJ /\ Len(k[1]) = 14)
  /\ [][ \A r \in Req :
           (pc[r] = "idle" /\ resp'[r].status = 400) =>
             /\ cache' = cache /\ sema' = sema
             /\ acquires' = acquires /\ releases' = releases
             /\ browser' = browser /\ closes' = closes
             /\ timer' = timer /\ key' = key /\ now' = now
             /\ out' = out /\ data' = data
             /\ \A q \in Req \ {r} : pc'[q] = pc[q] /\ resp'[q] = resp[q]
       ]_vars

\* C19 witness: a request has been answered 400 while the request before it
\* holds the slot with its browser open and the cache has an entry of an
\* earlier lookup.
C19_Witness ==
  \E r, q \in Req :
    /\ pc[r] = "done" /\ resp[r].status = 400
    /\ pc[q] \in SessionPcs /\ browser[q] = "open"
    /\ acquires[q] = 1 /\ releases[q] = 0 /\ sema = 0
    /\ DOMAIN cache # {}

====
